---- MODULE Spec2Model ----
(***************************************************************************)
(* Model of main.py: the newsletter pipeline                               *)
(*     fetch_news -> summarize_article (once per article) -> send_email    *)
(* The external services (GNews, newspaper scraper, OpenAI, Gmail SMTP)    *)
(* are the environment: every outcome they can produce is an input drawn   *)
(* with \E.  The variables marked "log" record the calls that were made;   *)
(* the program does not read them.                                         *)
(***************************************************************************)
EXTENDS Integers, Sequences, FiniteSets, TLC

\* ----------------------------------------------------------------- bounds
\* Longest article list the search API returns in the model.
MaxArticles == 2

\* ------------------------------------------------------ program constants
\* main.py:68   if len(article_text) < 250
MinTextLen == 250

\* ------------------------------------------------------------ value sets
\* Python's None (a summary that is absent).
None == "<None>"
\* A key that the provider's JSON object does not have.
Missing == "<missing>"

Titles == {"A", "B"}
Urls == {"u1", "u2"}
\* The elements of the provider's articles array: dicts that have, or lack,
\* the keys 'title' and 'url'.
Stubs == [title : Titles \cup {Missing}, url : Urls \cup {Missing}]
\* Lengths of the scraped article.text.
TextLens == {100, MinTextLen - 1, MinTextLen, 1000}
\* completion.choices[0].message.content: None, the empty string or a text.
Contents == {None, "", "S1", "S2"}

RECURSIVE SeqsUpTo(_, _)
SeqsUpTo(S, n) ==
  IF n = 0 THEN {<<>>}
  ELSE LET shorter == SeqsUpTo(S, n - 1)
       IN  shorter \cup {Append(s, x) : s \in {t \in shorter : Len(t) = n - 1}, x \in S}

\* What the search request can come back with.
Responses ==
  {"transport_error", "bad_status", "not_json", "json_not_object",
   "no_articles_key", "articles_null", "articles_number", "ok"}

\* Values of the name `articles` in main().
ListOf(items) == [kind |-> "list", items |-> items]
NoneValue == [kind |-> "none", items |-> <<>>]
NumberValue == [kind |-> "number", items |-> <<>>]
Unset == [kind |-> "unset", items |-> <<>>]

VARIABLES
  pc,              \* position of the single thread in main()
  client,          \* module-level OpenAI client: TRUE = initialised, FALSE = None
  articles,        \* main: articles
  i,               \* main: index of the article the for loop is at
  title,           \* main: title
  url,             \* main: url
  article_text,    \* summarize_article: article.text, [ok, len]
  summary,         \* value summarize_article returns to main
  summaries_list,  \* main: summaries_list
  subject,         \* send_email: subject
  text_body,       \* send_email: text_body
  html_body,       \* send_email: html_body
  response,        \* log: what the search request came back with
  fetchCalls,      \* log: number of fetch_news calls
  fetchRaised,     \* log: an exception left fetch_news
  summarizeCalls,  \* log: arguments of the summarize_article calls, in order
  results,         \* log: values the summarize_article calls returned, in order
  llmCalls,        \* log: chat completion calls, [call, len, out]
  sendCalls,       \* log: arguments of the send_email calls, in order
  smtpOutcome,     \* log: what the SMTP session did
  smtpOpen,        \* log: SMTP sessions currently open
  smtpOpened       \* log: SMTP sessions opened so far

vars ==
  <<pc, client, articles, i, title, url, article_text, summary, summaries_list,
    subject, text_body, html_body, response, fetchCalls, fetchRaised,
    summarizeCalls, results, llmCalls, sendCalls, smtpOutcome, smtpOpen, smtpOpened>>

mainVars == <<articles, i, title, url, summaries_list>>
summarizeVars == <<article_text, summary>>
renderVars == <<subject, text_body, html_body>>
fetchLog == <<response, fetchCalls, fetchRaised>>
summarizeLog == <<summarizeCalls, results, llmCalls>>
sendLog == <<sendCalls, smtpOutcome, smtpOpen, smtpOpened>>

\* ------------------------------------------------------------- fetch_news
\* main.py:44-51.  raise_for_status and a body that is not JSON raise
\* subclasses of RequestException (requests.exceptions.HTTPError, and
\* requests.exceptions.JSONDecodeError as of requests 2.27, older than the
\* openai client API the file uses), which the except clause catches;
\* data.get on a JSON value that is not an object raises AttributeError,
\* which it does not.  data.get('articles', []) returns whatever the key
\* holds.
fetch_news(resp, items) ==
  CASE resp \in {"transport_error", "bad_status", "not_json"} ->
         [raised |-> FALSE, value |-> ListOf(<<>>)]
    [] resp = "json_not_object" -> [raised |-> TRUE, value |-> Unset]
    [] resp = "no_articles_key" -> [raised |-> FALSE, value |-> ListOf(<<>>)]
    [] resp = "articles_null" -> [raised |-> FALSE, value |-> NoneValue]
    [] resp = "articles_number" -> [raised |-> FALSE, value |-> NumberValue]
    [] resp = "ok" -> [raised |-> FALSE, value |-> ListOf(items)]

\* main.py:146  faulty variant: `not articles`, checked as `articles is None`
NotArticlesIsNone(a) == a.kind = "none"
\* main.py:146  `not articles`: None and the empty list are falsy
NotArticles(a) == a.kind = "none" \/ (a.kind = "list" /\ a.items = <<>>)

\* main.py:68  faulty variant: the length check with <=
TooShortInclusive(len) == len <= MinTextLen
\* main.py:68  len(article_text) < 250
TooShort(len) == len < MinTextLen

\* main.py:161  faulty variant: `if summary`, checked as `summary is not None`
TruthyNotNone(s) == s # None
\* main.py:161  `if summary`: None and the empty string are falsy
Truthy(s) == s # None /\ s # ""

\* main.py:162-166  faulty variant: the entry inserted at the front
AppendEntryFront(list, t, s, u) == <<[title |-> t, summary |-> s, url |-> u]>> \o list
\* main.py:162-166  summaries_list.append({...})
AppendEntry(list, t, s, u) == Append(list, [title |-> t, summary |-> s, url |-> u])

\* main.py:168  faulty variant: `not summaries_list`, the check left out
NotSummariesNever(list) == FALSE
\* main.py:168  `not summaries_list`
NotSummaries(list) == list = <<>>

\* --------------------------------------------------------------- rendering
\* An f-string is modelled as the sequence of its pieces: the literal text
\* ("lit") and the interpolated values ("val").
Lit(s) == [kind |-> "lit", text |-> s]
Val(s) == [kind |-> "val", text |-> s]

\* main.py:99
Subject(list) ==
  <<Lit("Your Daily AI News Update ("), Val(ToString(Len(list))), Lit(" stories)")>>

\* main.py:107  faulty variant: the url left out of the plain-text item
TextItemNoUrl(item) ==
  <<Lit("* "), Val(item.title), Lit("\n"), Val(item.summary), Lit("\n\n")>>
\* main.py:107  (the bullet character of the source is written "* ")
TextItem(item) ==
  <<Lit("* "), Val(item.title), Lit("\n"), Val(item.summary),
    Lit("\nRead more: "), Val(item.url), Lit("\n\n")>>

\* main.py:108-114
HtmlItem(item) ==
  <<Lit("<li><strong>"), Val(item.title), Lit("</strong><br><p>"), Val(item.summary),
    Lit("</p><a href='"), Val(item.url), Lit("'>Read more</a></li><br>")>>

\* main.py:102-107  the loop that extends text_body
RECURSIVE TextBody(_, _)
TextBody(acc, list) ==
  IF list = <<>> THEN acc ELSE TextBody(acc \o TextItem(Head(list)), Tail(list))

\* main.py:104-116  the loop that extends html_body, and the closing tags
RECURSIVE HtmlBody(_, _)
HtmlBody(acc, list) ==
  IF list = <<>> THEN acc \o <<Lit("</ul></body></html>")>>
  ELSE HtmlBody(acc \o HtmlItem(Head(list)), Tail(list))

\* main.py:129  faulty variant: an exception inside the with block skipping __exit__
OnSessionErrorNoExit == "send_ret"
\* main.py:129  an exception inside the with block leaves through __exit__
OnSessionError == "exit"

\* ------------------------------------------------------------------- Init
Init ==
  /\ pc = "start"
  /\ client \in BOOLEAN
  /\ articles = Unset
  /\ i = 1
  /\ title = None
  /\ url = None
  /\ article_text = [ok |-> FALSE, len |-> 0]
  /\ summary = None
  /\ summaries_list = <<>>
  /\ subject = <<>>
  /\ text_body = <<>>
  /\ html_body = <<>>
  /\ response = None
  /\ fetchCalls = 0
  /\ fetchRaised = FALSE
  /\ summarizeCalls = <<>>
  /\ results = <<>>
  /\ llmCalls = <<>>
  /\ sendCalls = <<>>
  /\ smtpOutcome = None
  /\ smtpOpen = 0
  /\ smtpOpened = 0

\* ---------------------------------------------------------------- actions
\* main.py:144  articles = fetch_news(NEWS_TOPIC, MAX_ARTICLES)
Fetch ==
  /\ pc = "start"
  /\ \E resp \in Responses, items \in SeqsUpTo(Stubs, MaxArticles) :
       /\ resp # "ok" => items = <<>>
       /\ LET r == fetch_news(resp, items)
          IN  /\ response' = resp
              /\ fetchRaised' = r.raised
              /\ articles' = r.value
              /\ pc' = IF r.raised THEN "crashed" ELSE "fetched"
  /\ fetchCalls' = fetchCalls + 1
  /\ UNCHANGED <<client, i, title, url, summaries_list, summarizeVars, renderVars,
                 summarizeLog, sendLog>>

\* main.py:146-151  the empty check, summaries_list = [], len(articles)
CheckArticles ==
  /\ pc = "fetched"
  /\ pc' = IF NotArticles(articles) THEN "done"
           ELSE IF articles.kind # "list" THEN "crashed"   \* len() of a number
           ELSE "loop"
  /\ summaries_list' = <<>>
  /\ i' = 1
  /\ UNCHANGED <<client, articles, title, url, summarizeVars, renderVars,
                 fetchLog, summarizeLog, sendLog>>

\* main.py:153-158  next article: article['title'], article['url'] (KeyError
\* when the key is missing), then the call of summarize_article(url)
NextArticle ==
  /\ pc = "loop"
  /\ IF i > Len(articles.items)
     THEN /\ pc' = "check"
          /\ UNCHANGED <<title, url, summarizeCalls>>
     ELSE LET article == articles.items[i]
          IN  IF article.title = Missing
              THEN /\ pc' = "crashed"
                   /\ UNCHANGED <<title, url, summarizeCalls>>
              ELSE IF article.url = Missing
              THEN /\ pc' = "crashed"
                   /\ title' = article.title
                   /\ UNCHANGED <<url, summarizeCalls>>
              ELSE /\ pc' = "scrape"
                   /\ title' = article.title
                   /\ url' = article.url
                   /\ summarizeCalls' = Append(summarizeCalls, article.url)
  /\ UNCHANGED <<client, articles, i, summaries_list, summarizeVars, renderVars,
                 fetchLog, results, llmCalls, sendLog>>

\* main.py:61-65  download, parse, article_text = article.text; an exception
\* is caught at main.py:87-89 and None is returned
Scrape ==
  /\ pc = "scrape"
  /\ \/ /\ article_text' = [ok |-> FALSE, len |-> 0]
        /\ summary' = None
        /\ pc' = "ret"
     \/ \E len \in TextLens :
          /\ article_text' = [ok |-> TRUE, len |-> len]
          /\ summary' = summary
          /\ pc' = "validate"
  /\ UNCHANGED <<client, mainVars, renderVars, fetchLog, summarizeLog, sendLog>>

\* main.py:68-75  the length check, then the client check
Validate ==
  /\ pc = "validate"
  /\ IF TooShort(article_text.len) \/ ~client
     THEN /\ summary' = None
          /\ pc' = "ret"
     ELSE /\ summary' = summary
          /\ pc' = "llm"
  /\ UNCHANGED <<client, mainVars, article_text, renderVars, fetchLog, summarizeLog,
                 sendLog>>

\* main.py:77-85  the chat completion call; an exception (the request, or
\* choices[0]) is caught at main.py:87-89 and None is returned
Complete ==
  /\ pc = "llm"
  /\ \/ /\ llmCalls' = Append(llmCalls,
              [call |-> Len(summarizeCalls), len |-> article_text.len, out |-> None])
        /\ summary' = None
     \/ \E content \in Contents :
          /\ llmCalls' = Append(llmCalls,
                [call |-> Len(summarizeCalls), len |-> article_text.len, out |-> content])
          /\ summary' = content
  /\ pc' = "ret"
  /\ UNCHANGED <<client, mainVars, article_text, renderVars, fetchLog, summarizeCalls,
                 results, sendLog>>

\* main.py:158-166  summary = summarize_article(url); if summary: append
Collect ==
  /\ pc = "ret"
  /\ results' = Append(results, summary)
  /\ summaries_list' = IF Truthy(summary)
                       THEN AppendEntry(summaries_list, title, summary, url)
                       ELSE summaries_list
  /\ i' = i + 1
  /\ pc' = "loop"
  /\ UNCHANGED <<client, articles, title, url, summarizeVars, renderVars, fetchLog,
                 summarizeCalls, llmCalls, sendLog>>

\* main.py:168-173  the empty check, then the call of send_email
CheckSummaries ==
  /\ pc = "check"
  /\ IF NotSummaries(summaries_list)
     THEN /\ pc' = "done"
          /\ UNCHANGED sendCalls
     ELSE /\ pc' = "format"
          /\ sendCalls' = Append(sendCalls, summaries_list)
  /\ UNCHANGED <<client, mainVars, summarizeVars, renderVars, fetchLog, summarizeLog,
                 smtpOutcome, smtpOpen, smtpOpened>>

\* main.py:99-124  subject, text_body, html_body and the message
Format ==
  /\ pc = "format"
  /\ subject' = Subject(summaries_list)
  /\ text_body' = TextBody(<<Lit("Here is your daily news summary:\n\n")>>, summaries_list)
  /\ html_body' = HtmlBody(<<Lit("<html><body><h2>Here is your daily news summary:</h2><ul>")>>,
                           summaries_list)
  /\ pc' = "connect"
  /\ UNCHANGED <<client, mainVars, summarizeVars, fetchLog, summarizeLog, sendLog>>

\* main.py:128-129  smtplib.SMTP_SSL(...): the session is open once the
\* constructor returns; when it raises, the except clauses catch it
Connect ==
  /\ pc = "connect"
  /\ \/ /\ smtpOutcome' = "connect_failed"
        /\ pc' = "send_ret"
        /\ UNCHANGED <<smtpOpen, smtpOpened>>
     \/ /\ smtpOutcome' = smtpOutcome
        /\ smtpOpen' = smtpOpen + 1
        /\ smtpOpened' = smtpOpened + 1
        /\ pc' = "login"
  /\ UNCHANGED <<client, mainVars, summarizeVars, renderVars, fetchLog, summarizeLog,
                 sendCalls>>

\* main.py:130  server.login(...)
Login ==
  /\ pc = "login"
  /\ \/ /\ smtpOutcome' = "login_failed"
        /\ pc' = OnSessionError
     \/ /\ smtpOutcome' = smtpOutcome
        /\ pc' = "transmit"
  /\ UNCHANGED <<client, mainVars, summarizeVars, renderVars, fetchLog, summarizeLog,
                 sendCalls, smtpOpen, smtpOpened>>

\* main.py:131-132  server.send_message(msg)
Transmit ==
  /\ pc = "transmit"
  /\ \/ /\ smtpOutcome' = "send_failed"
        /\ pc' = OnSessionError
     \/ /\ smtpOutcome' = "sent"
        /\ pc' = "exit"
  /\ UNCHANGED <<client, mainVars, summarizeVars, renderVars, fetchLog, summarizeLog,
                 sendCalls, smtpOpen, smtpOpened>>

\* main.py:129  the end of the with block: SMTP.__exit__ quits and closes
ExitSession ==
  /\ pc = "exit"
  /\ smtpOpen' = smtpOpen - 1
  /\ pc' = "send_ret"
  /\ UNCHANGED <<client, mainVars, summarizeVars, renderVars, fetchLog, summarizeLog,
                 sendCalls, smtpOutcome, smtpOpened>>

\* main.py:134-137, 174  the except clauses swallow the error; send_email
\* returns and main prints its last line
SendReturn ==
  /\ pc = "send_ret"
  /\ pc' = "done"
  /\ UNCHANGED <<client, mainVars, summarizeVars, renderVars, fetchLog, summarizeLog,
                 sendLog>>

Next ==
  \/ Fetch
  \/ CheckArticles
  \/ NextArticle
  \/ Scrape
  \/ Validate
  \/ Complete
  \/ Collect
  \/ CheckSummaries
  \/ Format
  \/ Connect
  \/ Login
  \/ Transmit
  \/ ExitSession
  \/ SendReturn

Spec == Init /\ [][Next]_vars

\* ------------------------------------------------------------------ claims
\* A summary main() can use: neither None nor the empty string.
Usable(s) == s \notin {None, ""}

\* The entries that the articles items[1..Len(res)] and the returned values
\* res give: one per usable value, with the article's title and url, in order.
ExpectedEntries(items, res) ==
  LET idx == SelectSeq([k \in 1..Len(res) |-> k], LAMBDA k : Usable(res[k]))
  IN  [j \in 1..Len(idx) |->
         [title |-> items[idx[j]].title, summary |-> res[idx[j]], url |-> items[idx[j]].url]]

\* The interpolated values of a rendered text, in order.
Vals(body) ==
  LET sel == SelectSeq(body, LAMBDA p : p.kind = "val")
  IN  [k \in 1..Len(sel) |-> sel[k].text]

\* title, summary, url of every entry, in order.
RECURSIVE FlatFields(_)
FlatFields(list) ==
  IF list = <<>> THEN <<>>
  ELSE <<Head(list).title, Head(list).summary, Head(list).url>> \o FlatFields(Tail(list))

\* C1: whenever fetch_news returns an empty article list (the provider had
\* none, or the fetch failed), the run is at its end or about to take the
\* early return: summarize_article, the language model, send_email and SMTP
\* are never called.
C1_EmptyFetchEndsRun ==
  (fetchCalls = 1 /\ ~fetchRaised /\ articles = ListOf(<<>>)) =>
    /\ pc \in {"fetched", "done"}
    /\ summarizeCalls = <<>>
    /\ llmCalls = <<>>
    /\ sendCalls = <<>>
    /\ smtpOpened = 0

\* C1 witness: a failed fetch gave the empty list and the run has ended.
C1_Witness ==
  /\ pc = "done"
  /\ response = "transport_error"
  /\ articles = ListOf(<<>>)
  /\ summarizeCalls = <<>>

\* C2: a summarize_article call whose scraped text is shorter than 250
\* characters returns None and makes no completion call; no completion call
\* is ever made on a text shorter than 250; a text of exactly 250 characters
\* passes the check (with a client, the completion call is made).
C2_ShortTextNoCompletion ==
  /\ \A k \in 1..Len(llmCalls) : llmCalls[k].len >= 250
  /\ pc = "llm" => article_text.len >= 250
  /\ (pc = "ret" /\ article_text.ok /\ article_text.len < 250) =>
       /\ summary = None
       /\ \A k \in 1..Len(llmCalls) : llmCalls[k].call # Len(summarizeCalls)
  /\ (pc = "ret" /\ article_text.ok /\ article_text.len = 250 /\ client) =>
       \E k \in 1..Len(llmCalls) : llmCalls[k].call = Len(summarizeCalls)

\* C2 witness: a call that scraped 249 characters has returned None, with a
\* client that could have been called.
C2_Witness ==
  /\ pc = "ret"
  /\ client
  /\ article_text = [ok |-> TRUE, len |-> 249]
  /\ summary = None
  /\ llmCalls = <<>>

\* C3: send_email is called only with a non-empty entry list; while no
\* article has given a usable summary, send_email has not been called and no
\* SMTP session has been opened or attempted.
C3_SendOnlyNonEmpty ==
  /\ \A k \in 1..Len(sendCalls) : sendCalls[k] # <<>>
  /\ pc \in {"format", "connect", "login", "transmit", "exit", "send_ret"} =>
       sendCalls # <<>>
  /\ (smtpOpened > 0 \/ smtpOutcome # None) => sendCalls # <<>>
  /\ (\A k \in 1..Len(results) : ~Usable(results[k])) =>
       /\ sendCalls = <<>>
       /\ smtpOpened = 0
       /\ smtpOutcome = None

\* C3 witness: every article was summarized without a usable summary (one of
\* them with an empty model response) and the run ended without a send.
C3_Witness ==
  /\ pc = "done"
  /\ Len(results) = Len(articles.items)
  /\ Len(results) >= 1
  /\ results[1] = ""
  /\ \A k \in 1..Len(results) : ~Usable(results[k])
  /\ sendCalls = <<>>

\* C4: the accumulated list, and the list passed to send_email, are exactly
\* the entries of the articles whose summarize_article call returned a usable
\* summary, each with that article's title and url, in Fetcher order;
\* send_email gets them after every article has been summarized.
C4_EntriesAreTheSummarized ==
  /\ summaries_list = ExpectedEntries(articles.items, results)
  /\ \A k \in 1..Len(sendCalls) :
       /\ Len(results) = Len(articles.items)
       /\ sendCalls[k] = ExpectedEntries(articles.items, results)

\* C4 witness: the end-to-end scenario: A/u1 with 1000 characters summarized
\* to S1, B/u2 with 100 characters; exactly {A, S1, u1} reaches send_email.
C4_Witness ==
  /\ articles = ListOf(<<[title |-> "A", url |-> "u1"], [title |-> "B", url |-> "u2"]>>)
  /\ llmCalls = <<[call |-> 1, len |-> 1000, out |-> "S1"]>>
  /\ article_text = [ok |-> TRUE, len |-> 100]
  /\ results = <<"S1", None>>
  /\ sendCalls = << <<[title |-> "A", summary |-> "S1", url |-> "u1"]>> >>

\* C5: every entry of the accumulated list has a non-empty summary that a
\* completion call returned for that entry's url on a text of at least 250
\* characters.
C5_EntriesComeFromCompletions ==
  \A k \in 1..Len(summaries_list) :
    LET e == summaries_list[k]
    IN  /\ e.summary # ""
        /\ e.summary # None
        /\ \E j \in 1..Len(llmCalls) :
             /\ llmCalls[j].out = e.summary
             /\ llmCalls[j].len >= 250
             /\ summarizeCalls[llmCalls[j].call] = e.url

\* C5 witness: one completion returned the empty string, another a text,
\* and the list holds an entry.
C5_Witness ==
  /\ pc = "check"
  /\ Len(summaries_list) = 1
  /\ \E j \in 1..Len(llmCalls) : llmCalls[j].out = ""

\* C6 (as claimed): for a transport error, a bad status and a malformed body
\* (not JSON, JSON that is not an object, an object whose articles is not an
\* array) fetch_news raises nothing and returns an empty result, and the run
\* does not crash.
C6_FetchNeverEscapes ==
  (fetchCalls = 1 /\ response \in {"transport_error", "bad_status", "not_json",
                                   "json_not_object", "articles_null", "articles_number"}) =>
    /\ ~fetchRaised
    /\ articles \in {ListOf(<<>>), NoneValue}
    /\ pc # "crashed"

\* C7 (as claimed): no exception leaves main(): the run never crashes.
C7_NoExceptionLeavesMain == pc # "crashed"

\* C8: at most one SMTP session is opened per send_email call, it is open
\* only between the connect and the end of the with block, and it is closed
\* when send_email returns, whatever the session did.
C8_SessionClosedOnEveryPath ==
  /\ smtpOpened <= Len(sendCalls)
  /\ smtpOpen \in {0, 1}
  /\ pc \notin {"login", "transmit", "exit"} => smtpOpen = 0
  /\ pc \in {"send_ret", "done"} => smtpOpen = 0

\* C8 witness: the login failed on an opened session and send_email is
\* about to return with the session closed.
C8_Witness ==
  /\ pc = "send_ret"
  /\ smtpOutcome = "login_failed"
  /\ smtpOpened = 1
  /\ smtpOpen = 0

\* C9: once send_email has rendered, the subject is "Your Daily AI News
\* Update (N stories)" with N the number of entries it was given, and the
\* values interpolated into the plain-text body and into the HTML body are
\* each entry's title, summary and url, once, in the order of the entries.
C9_RenderedOnceInOrder ==
  (sendCalls # <<>> /\ pc # "format") =>
    LET entries == sendCalls[Len(sendCalls)]
    IN  /\ subject = <<Lit("Your Daily AI News Update ("), Val(ToString(Len(entries))),
                       Lit(" stories)")>>
        /\ Vals(text_body) = FlatFields(entries)
        /\ Vals(html_body) = FlatFields(entries)

\* C9 witness: two entries have been rendered.
C9_Witness ==
  /\ pc = "connect"
  /\ Len(sendCalls[1]) = 2
  /\ subject[2].text = "2"

\* C10 (as claimed): fetch_news is called once; summarize_article is called
\* once per fetched article, in Fetcher order, with at most one completion
\* call per article; send_email is called at most once, after the last
\* summarize_article call has returned.
C10_StagesInOrder ==
  /\ fetchCalls <= 1
  /\ pc # "start" => fetchCalls = 1
  /\ Len(summarizeCalls) <= Len(articles.items)
  /\ \A k \in 1..Len(summarizeCalls) : summarizeCalls[k] = articles.items[k].url
  /\ \A j, k \in 1..Len(llmCalls) : llmCalls[j].call = llmCalls[k].call => j = k
  /\ Len(sendCalls) <= 1
  /\ sendCalls # <<>> =>
       /\ Len(results) = Len(articles.items)
       /\ Len(summarizeCalls) = Len(articles.items)
  /\ (pc \in {"done", "crashed"} /\ articles.kind = "list") =>
       Len(summarizeCalls) = Len(articles.items)

\* C10 in the runs that no KeyError cuts short: the same statement with
\* "once per fetched article" asked of the runs that end normally only.
C10_StagesInOrderOfCompletedRuns ==
  /\ fetchCalls <= 1
  /\ pc # "start" => fetchCalls = 1
  /\ Len(summarizeCalls) <= Len(articles.items)
  /\ \A k \in 1..Len(summarizeCalls) : summarizeCalls[k] = articles.items[k].url
  /\ \A j, k \in 1..Len(llmCalls) : llmCalls[j].call = llmCalls[k].call => j = k
  /\ Len(sendCalls) <= 1
  /\ sendCalls # <<>> =>
       /\ Len(results) = Len(articles.items)
       /\ Len(summarizeCalls) = Len(articles.items)
  /\ (pc = "done" /\ articles.kind = "list") =>
       Len(summarizeCalls) = Len(articles.items)

====
